---- MODULE Spec2Model ----
(***************************************************************************)
(* The hand-rolled store of redux-create (createStore.js), its reducer     *)
(* (reducers/manageTodo.js), the bootstrap module (index.js) and the       *)
(* CreateTodo form component that dispatches to it.                        *)
(*                                                                         *)
(* JavaScript objects and arrays live in a heap and are handled by         *)
(* reference: `state`, `this.state`, payloads and array elements are heap  *)
(* addresses, so that sharing between the store and its callers is part of *)
(* the model.  dispatch is followed line by line through `pc`.             *)
(***************************************************************************)
EXTENDS Integers, Sequences, FiniteSets, TLC

VARIABLES
  heap,       \* the JavaScript heap: a sequence of cells, address = index
  state,      \* createStore.js:4   `let state` (a heap address, 0 = undefined)
  pc,         \* position of the single thread of control
  curAction,  \* the `action` argument of the dispatch call in progress
  thisState,  \* CreateTodo's this.state (0 while the component is not mounted)
  history,    \* every action dispatch was called with, in call order
  renders,    \* invocations of render() by the current / latest dispatch call
  seen,       \* what getState() yields inside the latest render() invocation
  prev,       \* `state` on entry to the current / latest dispatch call
  outcome,    \* how the latest dispatch call ended: "none", "returned", "threw"
  lastRead,   \* the value returned by the latest getState() call
  lastInput,  \* event.target.value of the latest change event ("" if none)
  changes,    \* number of change events so far
  op          \* the operation the latest step belongs to

vars == <<heap, state, pc, curAction, thisState, history, renders, seen, prev,
          outcome, lastRead, lastInput, changes, op>>

----------------------------------------------------------------------------
(* Bounds *)

MaxDispatch == 3     \* dispatch calls in one behaviour
MaxChanges == 2      \* change events in one behaviour
MaxPushLen == 2      \* length up to which a caller pushes onto a todos list

----------------------------------------------------------------------------
(* Values *)

Undefined == 0

Texts == {"buy groceries", "watch netflix"}

\* Heap cells.  An object literal {text: t}, an array, an object {todos: a}.
ObjCell(t) == [kind |-> "object", text |-> t, todos |-> Undefined, elems |-> <<>>]
ArrCell(es) == [kind |-> "array", text |-> "", todos |-> Undefined, elems |-> es]
StateCell(a) == [kind |-> "state", text |-> "", todos |-> a, elems |-> <<>>]

\* Action values.  UndefinedAction is dispatch(undefined).
Action(t, p) == [defined |-> TRUE, type |-> t, payload |-> p]
UndefinedAction == [defined |-> FALSE, type |-> "", payload |-> Undefined]
InitAction == Action("@@INIT", Undefined)

\* The objects a caller of the store has at hand to use as payloads:
\* two todo records, an empty list and a list of the two records.
CallerHeap ==
  << ObjCell("buy groceries"), ObjCell("watch netflix"),
     ArrCell(<<>>), ArrCell(<<1, 2>>) >>

\* The action objects a caller may pass to store.dispatch.
CallerActions ==
  { Action("ADD_TODO", p) : p \in 1..4 }
    \cup { Action("REMOVE_TODO", 1), InitAction, UndefinedAction }

\* s.todos of the state object at s, as the list of its elements
Todos(h, s) == h[h[s].todos].elems

----------------------------------------------------------------------------
(* reducers/manageTodo.js *)

\* a list of the new element alone, the old elements dropped
concat_OnlyNew(h, es, x) ==
  IF x # Undefined /\ h[x].kind = "array" THEN h[x].elems
  ELSE <<x>>

\* concat with the new element put in front of the list
concat_Prepend(h, es, x) ==
  IF x # Undefined /\ h[x].kind = "array" THEN h[x].elems \o es
  ELSE <<x>> \o es

\* Array.prototype.concat(x): a new array; an array argument is spread,
\* anything else is appended as one element.
concat(h, es, x) ==
  IF x # Undefined /\ h[x].kind = "array" THEN es \o h[x].elems
  ELSE Append(es, x)

\* the default parameter value {todos: []}: a fresh array, then a fresh object
DefaultState(h) ==
  LET h1 == Append(h, ArrCell(<<>>))
      h2 == Append(h1, StateCell(Len(h1)))
  IN  [h |-> h2, r |-> Len(h2)]

\* manageTodo without the default parameter value: an undefined state is
\* returned as it is, and reading its todos throws
manageTodo_NoDefault(h, s, a) ==
  IF ~a.defined THEN [h |-> h, r |-> Undefined, threw |-> TRUE]
  ELSE IF a.type = "ADD_TODO"
  THEN IF s = Undefined THEN [h |-> h, r |-> Undefined, threw |-> TRUE]
       ELSE LET es == concat(h, h[h[s].todos].elems, a.payload)
                h1 == Append(h, ArrCell(es))
                h2 == Append(h1, StateCell(Len(h1)))
            IN  [h |-> h2, r |-> Len(h2), threw |-> FALSE]
  ELSE [h |-> h, r |-> s, threw |-> FALSE]

\* manageTodo whose default branch returns a fresh {todos: []}
manageTodo_ResetOnUnknown(h, s, a) ==
  LET d == IF s = Undefined THEN DefaultState(h) ELSE [h |-> h, r |-> s]
  IN  IF ~a.defined
      THEN [h |-> d.h, r |-> Undefined, threw |-> TRUE]
      ELSE IF a.type = "ADD_TODO"
      THEN LET es == concat(d.h, d.h[d.h[d.r].todos].elems, a.payload)
               h1 == Append(d.h, ArrCell(es))
               h2 == Append(h1, StateCell(Len(h1)))
           IN  [h |-> h2, r |-> Len(h2), threw |-> FALSE]
      ELSE LET f == DefaultState(d.h)
           IN  [h |-> f.h, r |-> f.r, threw |-> FALSE]

\* manageTodo that grows the list it was given and returns the same state:
\* state.todos.push(action.payload); return state
manageTodo_Push(h, s, a) ==
  LET d == IF s = Undefined THEN DefaultState(h) ELSE [h |-> h, r |-> s]
  IN  IF ~a.defined
      THEN [h |-> d.h, r |-> Undefined, threw |-> TRUE]
      ELSE IF a.type = "ADD_TODO"
      THEN [h |-> [d.h EXCEPT ![d.h[d.r].todos].elems = Append(@, a.payload)],
            r |-> d.r, threw |-> FALSE]
      ELSE [h |-> d.h, r |-> d.r, threw |-> FALSE]

\* manageTodo whose switch has no default branch: an unrecognized type
\* falls out of the function, which returns undefined
manageTodo_NoDefaultBranch(h, s, a) ==
  LET d == IF s = Undefined THEN DefaultState(h) ELSE [h |-> h, r |-> s]
  IN  IF ~a.defined
      THEN [h |-> d.h, r |-> Undefined, threw |-> TRUE]
      ELSE IF a.type = "ADD_TODO"
      THEN LET es == concat(d.h, d.h[d.h[d.r].todos].elems, a.payload)
               h1 == Append(d.h, ArrCell(es))
               h2 == Append(h1, StateCell(Len(h1)))
           IN  [h |-> h2, r |-> Len(h2), threw |-> FALSE]
      ELSE [h |-> d.h, r |-> Undefined, threw |-> FALSE]

\* manageTodo(state = {todos: []}, action): the heap after the call, the
\* returned reference, and whether the call threw (action.type of undefined).
manageTodo(h, s, a) ==
  LET d == IF s = Undefined THEN DefaultState(h) ELSE [h |-> h, r |-> s]
  IN  IF ~a.defined
      THEN [h |-> d.h, r |-> Undefined, threw |-> TRUE]
      ELSE IF a.type = "ADD_TODO"
      THEN LET es == concat(d.h, d.h[d.h[d.r].todos].elems, a.payload)
               h1 == Append(d.h, ArrCell(es))
               h2 == Append(h1, StateCell(Len(h1)))
           IN  [h |-> h2, r |-> Len(h2), threw |-> FALSE]
      ELSE [h |-> d.h, r |-> d.r, threw |-> FALSE]

----------------------------------------------------------------------------
(* createStore.js, index.js *)

\* createStore(manageTodo) has returned (index.js:7); index.js:16 is next.
Init ==
  /\ heap = CallerHeap
  /\ state = Undefined
  /\ pc = "load"
  /\ curAction = UndefinedAction
  /\ thisState = Undefined
  /\ history = <<>>
  /\ renders = 0
  /\ seen = Undefined
  /\ prev = Undefined
  /\ outcome = "none"
  /\ lastRead = Undefined
  /\ lastInput = ""
  /\ changes = 0
  /\ op = "createStore"

\* entry of dispatch(action): control is at createStore.js:7
CallDispatch(a, who) ==
  /\ Len(history) < MaxDispatch
  /\ curAction' = a
  /\ history' = Append(history, a)
  /\ prev' = state
  /\ renders' = 0
  /\ outcome' = "none"
  /\ pc' = "L7"
  /\ op' = who
  /\ UNCHANGED <<heap, state, thisState, seen, lastRead, lastInput, changes>>

\* index.js:16  store.dispatch({type: '@@INIT'})
IndexDispatchInit ==
  /\ pc = "load"
  /\ CallDispatch(InitAction, "index")

\* dispatch that notifies even when the reducer threw (render() in a
\* finally clause)
DispatchReduce_RenderOnThrow ==
  /\ pc = "L7"
  /\ LET res == manageTodo(heap, state, curAction)
     IN  /\ heap' = res.h
         /\ IF res.threw
            THEN /\ state' = state
                 /\ outcome' = "threw"
                 /\ pc' = "L12"
            ELSE /\ state' = res.r
                 /\ outcome' = outcome
                 /\ pc' = "L12"
  /\ UNCHANGED <<curAction, thisState, history, renders, seen, prev,
                 lastRead, lastInput, changes, op>>

\* dispatch that reduces the action twice
DispatchReduce_Twice ==
  /\ pc = "L7"
  /\ LET one == manageTodo(heap, state, curAction)
         res == IF one.threw THEN one ELSE manageTodo(one.h, one.r, curAction)
     IN  /\ heap' = res.h
         /\ IF res.threw
            THEN /\ state' = state
                 /\ outcome' = "threw"
                 /\ pc' = "idle"
            ELSE /\ state' = res.r
                 /\ outcome' = outcome
                 /\ pc' = "L12"
  /\ UNCHANGED <<curAction, thisState, history, renders, seen, prev,
                 lastRead, lastInput, changes, op>>

\* createStore.js:7  state = reducer(state, action); a throw leaves the
\* assignment undone and unwinds dispatch and its caller.
DispatchReduce ==
  /\ pc = "L7"
  /\ LET res == manageTodo(heap, state, curAction)
     IN  /\ heap' = res.h
         /\ IF res.threw
            THEN /\ state' = state
                 /\ outcome' = "threw"
                 /\ pc' = "idle"
            ELSE /\ state' = res.r
                 /\ outcome' = outcome
                 /\ pc' = "L12"
  /\ UNCHANGED <<curAction, thisState, history, renders, seen, prev,
                 lastRead, lastInput, changes, op>>

\* render() that shows the state dispatch was entered with
DispatchRender_Stale ==
  /\ pc = "L12"
  /\ renders' = renders + 1
  /\ seen' = prev
  /\ IF thisState = Undefined
     THEN /\ heap' = Append(heap, ObjCell(""))
          /\ thisState' = Len(heap) + 1
     ELSE UNCHANGED <<heap, thisState>>
  /\ pc' = "L13"
  /\ UNCHANGED <<state, curAction, history, prev, outcome, lastRead,
                 lastInput, changes, op>>

\* createStore.js:12  render(), index.js:9-14: ReactDOM.render(<App store/>).
\* The first call mounts CreateTodo, whose constructor sets this.state to
\* {text: ''}; later calls re-render the mounted component.
DispatchRender ==
  /\ pc = "L12"
  /\ renders' = renders + 1
  /\ seen' = state
  /\ IF thisState = Undefined
     THEN /\ heap' = Append(heap, ObjCell(""))
          /\ thisState' = Len(heap) + 1
     ELSE UNCHANGED <<heap, thisState>>
  /\ pc' = "L13"
  /\ UNCHANGED <<state, curAction, history, prev, outcome, lastRead,
                 lastInput, changes, op>>

\* createStore.js:13  dispatch returns to its caller, which has nothing left
\* to do (index.js:16, CreateTodo.handleSubmit, or an outside caller).
DispatchReturn ==
  /\ pc = "L13"
  /\ outcome' = "returned"
  /\ pc' = "idle"
  /\ UNCHANGED <<heap, state, curAction, thisState, history, renders, seen,
                 prev, lastRead, lastInput, changes, op>>

\* getState() that returns the state before the latest dispatch
GetState_Stale ==
  /\ pc \in {"load", "idle"}
  /\ lastRead' = prev
  /\ op' = "getState"
  /\ UNCHANGED <<heap, state, pc, curAction, thisState, history, renders,
                 seen, prev, outcome, lastInput, changes>>

\* createStore.js:15-17  getState()
GetState ==
  /\ pc \in {"load", "idle"}
  /\ lastRead' = state
  /\ op' = "getState"
  /\ UNCHANGED <<heap, state, pc, curAction, thisState, history, renders,
                 seen, prev, outcome, lastInput, changes>>

\* store.dispatch(a) by a caller that holds the store object
CallerDispatch(a) ==
  /\ pc = "idle"
  /\ CallDispatch(a, "caller")

----------------------------------------------------------------------------
(* components/todos/CreateTodo.js *)

\* handleChange that writes into the state object: this.state.text = value
HandleChange_InPlace(v) ==
  /\ pc = "idle"
  /\ thisState # Undefined
  /\ changes < MaxChanges
  /\ heap' = [heap EXCEPT ![thisState].text = v]
  /\ thisState' = thisState
  /\ lastInput' = v
  /\ changes' = changes + 1
  /\ op' = "handleChange"
  /\ UNCHANGED <<state, pc, curAction, history, renders, seen, prev,
                 outcome, lastRead>>

\* handleChange that sets another key than text: this.state.text stays
HandleChange_WrongKey(v) ==
  /\ pc = "idle"
  /\ thisState # Undefined
  /\ changes < MaxChanges
  /\ heap' = Append(heap, ObjCell(heap[thisState].text))
  /\ thisState' = Len(heap) + 1
  /\ lastInput' = v
  /\ changes' = changes + 1
  /\ op' = "handleChange"
  /\ UNCHANGED <<state, pc, curAction, history, renders, seen, prev,
                 outcome, lastRead>>

\* handleChange(event): this.setState({text: event.target.value}); React
\* installs a new state object made of the old one and the update.
HandleChange(v) ==
  /\ pc = "idle"
  /\ thisState # Undefined
  /\ changes < MaxChanges
  /\ heap' = Append(heap, ObjCell(v))
  /\ thisState' = Len(heap) + 1
  /\ lastInput' = v
  /\ changes' = changes + 1
  /\ op' = "handleChange"
  /\ UNCHANGED <<state, pc, curAction, history, renders, seen, prev,
                 outcome, lastRead>>

\* handleSubmit that also clears the input: this.setState({text: ''})
HandleSubmit_ClearsInput ==
  /\ pc = "idle"
  /\ thisState # Undefined
  /\ Len(history) < MaxDispatch
  /\ curAction' = Action("ADD_TODO", thisState)
  /\ history' = Append(history, Action("ADD_TODO", thisState))
  /\ prev' = state
  /\ renders' = 0
  /\ outcome' = "none"
  /\ pc' = "L7"
  /\ op' = "handleSubmit"
  /\ heap' = Append(heap, ObjCell(""))
  /\ thisState' = Len(heap) + 1
  /\ UNCHANGED <<state, seen, lastRead, lastInput, changes>>

\* handleSubmit(event): store.dispatch({type: 'ADD_TODO', payload: this.state})
HandleSubmit ==
  /\ pc = "idle"
  /\ thisState # Undefined
  /\ CallDispatch(Action("ADD_TODO", thisState), "handleSubmit")

----------------------------------------------------------------------------

Next ==
  \/ IndexDispatchInit
  \/ DispatchReduce
  \/ DispatchRender
  \/ DispatchReturn
  \/ GetState
  \/ \E a \in CallerActions : CallerDispatch(a)
  \/ \E v \in Texts \cup {""} : HandleChange(v)
  \/ HandleSubmit

Spec == Init /\ [][Next]_vars

\* A caller that keeps the reference getState() returned (createStore.js:16
\* returns `state` itself, not a copy) and writes through it:
\*   store.getState().todos.push(x)
CallerPush(x) ==
  /\ pc = "idle"
  /\ lastRead # Undefined
  /\ Len(Todos(heap, lastRead)) < MaxPushLen
  /\ heap' = [heap EXCEPT ![heap[lastRead].todos].elems = Append(@, x)]
  /\ op' = "callerPush"
  /\ UNCHANGED <<state, pc, curAction, thisState, history, renders, seen,
                 prev, outcome, lastRead, lastInput, changes>>

\* the program with callers that also use what getState() hands them
NextAlias ==
  \/ Next
  \/ \E x \in 1..2 : CallerPush(x)

SpecAlias == Init /\ [][NextAlias]_vars

\* A render callback that ignores a dispatch made while one is in progress
\* (a store with a reentrancy guard): render() returns to createStore.js:13.
RenderDispatches_Guarded(a) ==
  /\ pc = "L12"
  /\ Len(history) < MaxDispatch
  /\ renders' = renders + 1
  /\ seen' = state
  /\ pc' = "L13"
  /\ UNCHANGED <<heap, state, curAction, thisState, history, prev, outcome,
                 lastRead, lastInput, changes, op>>

\* createStore.js:12 with a render callback that calls store.dispatch(a)
\* before it returns: dispatch has no guard, control is at createStore.js:7
\* again, one call deeper, with the outer call still waiting at line 12.
RenderDispatches(a) ==
  /\ pc = "L12"
  /\ Len(history) < MaxDispatch
  /\ seen' = state
  /\ curAction' = a
  /\ history' = Append(history, a)
  /\ prev' = state
  /\ renders' = 0
  /\ outcome' = "none"
  /\ pc' = "L7"
  /\ UNCHANGED <<heap, state, thisState, lastRead, lastInput, changes, op>>

\* the store with a render callback that dispatches on every notification
NextReentrant ==
  \/ IndexDispatchInit
  \/ DispatchReduce
  \/ \E a \in CallerActions : RenderDispatches(a)
  \/ GetState
  \/ \E a \in CallerActions : CallerDispatch(a)

SpecReentrant == Init /\ [][NextReentrant]_vars

\* the program, run by a thread that does not stop inside a dispatch call
SpecFair ==
  /\ Spec
  /\ WF_vars(DispatchReduce)
  /\ WF_vars(DispatchRender)
  /\ WF_vars(DispatchReturn)

----------------------------------------------------------------------------
(* features/todos/todosSlice.js: the slice-based variant *)

\* The object {entities: a}; the cell's list field holds entities.
SliceCell(a) == [kind |-> "slice", text |-> "", todos |-> a, elems |-> <<>>]

\* s.entities of the slice state at s
Entities(h, s) == h[h[s].todos].elems

\* the action todoAdded(p) creates
TodoAdded(p) == Action("todos/todoAdded", p)

\* todoAdded run on the state itself instead of a draft of it:
\* state.entities.push(action.payload) on the store's own list
todoAdded_InPlace(h, s, a) ==
  [h |-> [h EXCEPT ![h[s].todos].elems = Append(@, a.payload)], r |-> s]

\* todoAdded(state, action) as createSlice runs it: state.entities.push(
\* action.payload) is applied to a draft, and the result is a new state
\* object with a new entities list; push adds its argument as one element.
todoAdded(h, s, a) ==
  LET h1 == Append(h, ArrCell(Append(h[h[s].todos].elems, a.payload)))
      h2 == Append(h1, SliceCell(Len(h1)))
  IN  [h |-> h2, r |-> Len(h2)]

\* the store holds initialState, {entities: []}
InitSlice ==
  /\ heap = CallerHeap \o <<ArrCell(<<>>), SliceCell(Len(CallerHeap) + 1)>>
  /\ state = Len(CallerHeap) + 2
  /\ pc = "idle"
  /\ curAction = UndefinedAction
  /\ thisState = Undefined
  /\ history = <<>>
  /\ renders = 0
  /\ seen = Undefined
  /\ prev = Undefined
  /\ outcome = "none"
  /\ lastRead = Undefined
  /\ lastInput = ""
  /\ changes = 0
  /\ op = "configureStore"

\* dispatch(todoAdded(p))
SliceDispatch(p) ==
  /\ pc = "idle"
  /\ Len(history) < MaxDispatch
  /\ LET res == todoAdded(heap, state, TodoAdded(p))
     IN  heap' = res.h /\ state' = res.r
  /\ curAction' = TodoAdded(p)
  /\ history' = Append(history, TodoAdded(p))
  /\ prev' = state
  /\ outcome' = "returned"
  /\ op' = "sliceDispatch"
  /\ UNCHANGED <<pc, thisState, renders, seen, lastRead, lastInput, changes>>

NextSlice ==
  \/ \E p \in 1..Len(CallerHeap) : SliceDispatch(p)
  \/ GetState

SpecSlice == InitSlice /\ [][NextSlice]_vars

----------------------------------------------------------------------------
(* What the store shows to a reader *)

\* the text fields of the elements of a todos list
TextsOf(h, es) == [i \in 1..Len(es) |-> h[es[i]].text]

\* two state values with the same contents (undefined, or the same todos)
SameValue(h1, s1, h2, s2) ==
  IF s1 = Undefined \/ s2 = Undefined
  THEN s1 = s2
  ELSE Todos(h1, s1) = Todos(h2, s2)

\* reducer(...reducer(reducer(s, a1), a2)..., an)
RECURSIVE Fold(_, _, _)
Fold(h, s, as) ==
  IF as = <<>> THEN [h |-> h, r |-> s]
  ELSE LET res == manageTodo(h, s, Head(as))
       IN  Fold(res.h, res.r, Tail(as))

\* the dispatched actions whose reduction has run, those that threw left out
Reduced ==
  LET done == IF pc = "L7" THEN SubSeq(history, 1, Len(history) - 1)
              ELSE history
  IN  SelectSeq(done, LAMBDA a : a.defined)

----------------------------------------------------------------------------
(* Claims *)

\* C1: the state of the store is the left fold of the reducer over the
\* dispatched actions, in the order of their dispatch, from the undefined
\* state the store is created with: each is applied once, none is skipped.
C1_LeftFold ==
  LET f == Fold(heap, Undefined, Reduced)
  IN  SameValue(heap, state, f.h, f.r)

\* three actions dispatched and reduced, two of them adding a todo
C1_Witness ==
  /\ pc = "idle"
  /\ Len(Reduced) = 3
  /\ state # Undefined
  /\ Len(Todos(heap, state)) >= 2

\* C2 as stated: before any dispatch call getState() already yields
\* reducer(undefined, INIT-action).
C2_Original ==
  LET r == manageTodo(heap, Undefined, InitAction)
  IN  history = <<>> => SameValue(heap, state, r.h, r.r)

\* C2, amended: before any dispatch call the state is undefined; the
\* '@@INIT' dispatch of index.js:16 makes it reducer(undefined, INIT-action),
\* which is {todos: []}.
C2_Amended ==
  LET r == manageTodo(heap, Undefined, InitAction)
  IN  /\ history = <<>> => state = Undefined
      /\ (history = <<InitAction>> /\ pc # "L7") =>
            /\ state # Undefined
            /\ heap[state].kind = "state"
            /\ Todos(heap, state) = <<>>
            /\ SameValue(heap, state, r.h, r.r)

\* getState() called after the '@@INIT' dispatch and before any other
C2_Witness ==
  /\ history = <<InitAction>>
  /\ pc = "idle"
  /\ op = "getState"
  /\ lastRead = state

\* the latest dispatch call has ended and its action has a type the
\* reducer does not recognize
LastUnrecognized ==
  /\ pc = "idle"
  /\ history # <<>>
  /\ curAction.defined
  /\ curAction.type # "ADD_TODO"

\* C3 as stated: in every state of the store, a dispatch of an unrecognized
\* type completes and leaves what getState() returns unchanged.
C3_Original ==
  LastUnrecognized =>
    outcome = "returned" /\ SameValue(heap, prev, heap, state)

\* C3, amended: once the store holds a state (from the first dispatch on), a
\* dispatch of an unrecognized type completes and leaves getState() the very
\* same value; the first dispatch turns undefined into {todos: []}.
C3_Amended ==
  /\ (LastUnrecognized /\ prev # Undefined) =>
        outcome = "returned" /\ state = prev
                             /\ SameValue(heap, prev, heap, state)
  /\ (LastUnrecognized /\ prev = Undefined) =>
        outcome = "returned" /\ state # Undefined
                             /\ Todos(heap, state) = <<>>

\* an unrecognized action dispatched to a store that holds todos
C3_Witness ==
  /\ LastUnrecognized
  /\ curAction.type = "REMOVE_TODO"
  /\ prev # Undefined
  /\ Len(Todos(heap, state)) > 0

\* the latest dispatch call returned and its action was ADD_TODO with a
\* record {text: t} as payload
LastAddedRecord ==
  /\ pc = "idle"
  /\ outcome = "returned"
  /\ curAction.defined
  /\ curAction.type = "ADD_TODO"
  /\ curAction.payload # Undefined
  /\ heap[curAction.payload].kind = "object"

\* C4: ADD_TODO with payload {text: t} on todos T yields T followed by that
\* record; 'buy groceries' then 'watch netflix' from the initial state yield
\* [{text: 'buy groceries'}, {text: 'watch netflix'}].
C4_AppendsRecord ==
  /\ LastAddedRecord =>
        /\ prev # Undefined
        /\ Todos(heap, state) = Append(Todos(heap, prev), curAction.payload)
        /\ heap[Todos(heap, state)[Len(Todos(heap, state))]].text
             = heap[curAction.payload].text
  /\ (pc = "idle" /\ history = <<InitAction, Action("ADD_TODO", 1),
                                  Action("ADD_TODO", 2)>>) =>
        TextsOf(heap, Todos(heap, state))
          = <<"buy groceries", "watch netflix">>

\* the two todos of the example are in the store
C4_Witness ==
  /\ LastAddedRecord
  /\ TextsOf(heap, Todos(heap, state)) = <<"buy groceries", "watch netflix">>

\* C5: a dispatch call invokes render() once, after the state is replaced
\* and before it returns, and render() sees the new state.
C5_RenderOnceAfterUpdate ==
  LET r == manageTodo(heap, prev, curAction)
      adds == curAction.defined /\ curAction.type = "ADD_TODO"
  IN  /\ pc = "L7" => renders = 0
      /\ pc = "L12" => renders = 0 /\ SameValue(heap, state, r.h, r.r)
      /\ (pc = "L13" \/ (pc = "idle" /\ outcome = "returned")) =>
            /\ renders = 1
            /\ seen = state
            /\ SameValue(heap, seen, r.h, r.r)
            /\ adds => seen # prev

\* a dispatch that added a todo has returned
C5_Witness ==
  /\ pc = "idle"
  /\ outcome = "returned"
  /\ curAction.type = "ADD_TODO"
  /\ renders = 1
  /\ prev # Undefined
  /\ Len(Todos(heap, seen)) > Len(Todos(heap, prev))

\* the dispatch call before the latest one threw
PreviousThrew ==
  /\ Len(history) >= 2
  /\ ~history[Len(history) - 1].defined

\* C6: when the reducer throws, the failure reaches the caller of dispatch
\* at once, the state is the one before the call, render() is not invoked,
\* and the next dispatch works from the preserved state.
C6_ThrowPreservesState ==
  LET r == manageTodo(heap, prev, curAction)
  IN  /\ outcome = "threw" =>
            /\ pc = "idle"
            /\ ~curAction.defined
            /\ state = prev
            /\ renders = 0
      /\ (pc = "L7" /\ PreviousThrew) =>
            LET f == Fold(heap, Undefined, Reduced)
            IN  state = prev /\ SameValue(heap, prev, f.h, f.r)
      /\ (pc = "idle" /\ PreviousThrew /\ curAction.defined) =>
            outcome = "returned" /\ SameValue(heap, state, r.h, r.r)

\* a dispatch threw on a store holding a todo, and the next one added one
C6_Witness ==
  /\ pc = "idle"
  /\ PreviousThrew
  /\ outcome = "returned"
  /\ curAction.type = "ADD_TODO"
  /\ Len(Todos(heap, state)) = Len(Todos(heap, prev)) + 1

\* C7: getState() changes nothing of the store, calls neither the reducer
\* nor render(), and returns the current state: the one the latest dispatch
\* produced, however often it is called.
C7_GetStatePure ==
  /\ [](op = "getState" => lastRead = state)
  /\ [][op' = "getState" =>
          /\ lastRead' = state
          /\ state' = state
          /\ heap' = heap
          /\ history' = history
          /\ renders' = renders
          /\ seen' = seen
          /\ pc' = pc]_vars

\* getState() returned a state with a todo in it
C7_Witness ==
  /\ op = "getState"
  /\ lastRead # Undefined
  /\ Len(Todos(heap, lastRead)) > 0
  /\ Len(history) = MaxDispatch

\* the two latest dispatch calls returned and had the same ADD_TODO action
LastTwoSame ==
  /\ pc = "idle"
  /\ outcome = "returned"
  /\ Len(history) >= 2
  /\ history[Len(history)] = history[Len(history) - 1]
  /\ curAction.defined
  /\ curAction.type = "ADD_TODO"

StoreShows ==
  [defined |-> state # Undefined,
   todos |-> IF state = Undefined THEN <<>> ELSE Todos(heap, state)]

\* C9 as stated: the store exposes no mutable reference to its state, so
\* what getState() shows changes in no step other than the assignment of
\* dispatch (createStore.js:7).
C9_Original == [][StoreShows' # StoreShows => pc = "L7"]_vars

\* the latest step was the return of a dispatch made by handleSubmit
SubmitDone ==
  /\ op = "handleSubmit"
  /\ pc = "idle"

\* C10: handleSubmit dispatches one action {type: 'ADD_TODO', payload:
\* {text: v}}, v being the value of the latest change event ('' if none), so
\* the last todo of the store has the text of the input.
C10_SubmitDispatchesInput ==
  /\ [](SubmitDone =>
          /\ outcome = "returned"
          /\ curAction = history[Len(history)]
          /\ curAction.type = "ADD_TODO"
          /\ heap[curAction.payload].kind = "object"
          /\ heap[curAction.payload].text = lastInput
          /\ Todos(heap, state) = Append(Todos(heap, prev), curAction.payload)
          /\ heap[Todos(heap, state)[Len(Todos(heap, state))]].text
               = heap[thisState].text)
  /\ [][(op' = "handleSubmit" /\ pc = "idle") =>
          /\ Len(history') = Len(history) + 1
          /\ pc' = "L7"]_vars
  /\ [][(op = "handleSubmit" /\ pc # "idle") => history' = history]_vars

\* a submit after two change events, the second carrying another value
C10_Witness ==
  /\ SubmitDone
  /\ changes = 2
  /\ lastInput = "watch netflix"
  /\ TextsOf(heap, Todos(heap, state)) = <<"watch netflix">>

\* the latest dispatch call returned and its action was an ADD_TODO
LastAdded ==
  /\ pc = "idle"
  /\ outcome = "returned"
  /\ curAction.defined
  /\ curAction.type = "ADD_TODO"
  /\ prev # Undefined

C12_NoInPlaceChange ==
  /\ [][pc # "idle" =>
          \A a \in 1..Len(heap) : Len(heap') >= a /\ heap'[a] = heap[a]]_vars
  /\ [](LastAdded =>
          /\ state # prev
          /\ heap[state].todos # heap[prev].todos
          /\ Todos(heap, prev)
               = SubSeq(Todos(heap, state), 1, Len(Todos(heap, prev))))

\* a state read with getState(), then an ADD_TODO: what was read is as short
\* as it was
C12_Witness ==
  /\ LastAdded
  /\ lastRead = prev
  /\ Len(Todos(heap, lastRead)) = 1
  /\ Len(Todos(heap, state)) = 2

C13_DispatchTerminates == (pc = "L7") ~> (pc = "idle")

\* C14: the slice state starts as {entities: []}; each todoAdded with payload
\* p yields the previous entities followed by p as one element, in a new
\* state, and the state held before is not altered.
C14_SliceAppends ==
  /\ [](history = <<>> =>
          heap[state].kind = "slice" /\ Entities(heap, state) = <<>>)
  /\ [](history # <<>> =>
          /\ Entities(heap, state)
               = Append(Entities(heap, prev), curAction.payload)
          /\ state # prev
          /\ heap[state].todos # heap[prev].todos)
  /\ [][\A a \in 1..Len(heap) : Len(heap') >= a /\ heap'[a] = heap[a]]_vars

\* three todoAdded actions, the last with a list as payload, and a state
\* read before them that is still empty
C14_Witness ==
  /\ Len(history) = 3
  /\ Len(Entities(heap, state)) = 3
  /\ heap[curAction.payload].kind = "array"
  /\ Entities(heap, state)[3] = curAction.payload
  /\ Entities(heap, Len(CallerHeap) + 2) = <<>>

\* a defined state object with a todos list
HasTodos(h, s) ==
  /\ s # Undefined
  /\ h[s].kind = "state"
  /\ h[s].todos # Undefined
  /\ h[h[s].todos].kind = "array"

\* C15: render() never runs against an uninitialized store: nothing is
\* rendered before the '@@INIT' dispatch of index.js, and every invocation
\* of render() finds getState() defined, with a todos list.
C15_RenderSeesInitializedStore ==
  /\ pc = "load" => (thisState = Undefined /\ renders = 0)
  /\ pc = "L12" => HasTodos(heap, state)
  /\ (pc = "L13" \/ thisState # Undefined \/ renders > 0) =>
        /\ HasTodos(heap, seen)
        /\ history[1] = InitAction

\* the first render, made by the '@@INIT' dispatch, has just run
C15_Witness ==
  /\ pc = "L13"
  /\ history = <<InitAction>>
  /\ renders = 1
  /\ seen = state
  /\ Todos(heap, seen) = <<>>

\* the list s is the beginning of the list t
IsPrefix(s, t) ==
  /\ Len(s) <= Len(t)
  /\ SubSeq(t, 1, Len(s)) = s

\* C16: the todos list is append-only: in every step, of a dispatch of any
\* type or of anything else, the todos list before is a prefix of the todos
\* list after, and a state, once there, does not become undefined.
C16_AppendOnly ==
  /\ [][state # Undefined =>
          /\ state' # Undefined
          /\ IsPrefix(Todos(heap, state), Todos(heap', state'))]_vars
  /\ []((pc # "L7" /\ prev # Undefined) =>
          IsPrefix(Todos(heap, prev), Todos(heap, state)))

\* a list payload, then a record: three todos in the order of arrival
C16_Witness ==
  /\ pc = "idle"
  /\ history = <<InitAction, Action("ADD_TODO", 4), Action("ADD_TODO", 1)>>
  /\ Todos(heap, prev) = <<1, 2>>
  /\ Todos(heap, state) = <<1, 2, 1>>

\* C17: a change event sets the component's text and touches nothing of the
\* store; a submit makes one dispatch call and leaves the component's text
\* as it is (the input is not cleared).
C17_FormEventsDisjoint ==
  /\ [][changes' # changes =>
          /\ heap'[thisState'].text = lastInput'
          /\ state' = state
          /\ history' = history
          /\ pc' = pc
          /\ renders' = renders
          /\ seen' = seen
          /\ outcome' = outcome
          /\ \A a \in 1..Len(heap) : heap'[a] = heap[a]]_vars
  /\ [][(op' = "handleSubmit" /\ pc = "idle") =>
          /\ Len(history') = Len(history) + 1
          /\ thisState' = thisState
          /\ heap'[thisState] = heap[thisState]
          /\ changes' = changes]_vars
  /\ [][(op = "handleSubmit" /\ pc # "idle") =>
          /\ history' = history
          /\ thisState' = thisState
          /\ heap'[thisState] = heap[thisState]]_vars
  /\ [](SubmitDone => heap[thisState].text = lastInput)

\* a text typed, then submitted: it is in the store and still in the input
C17_Witness ==
  /\ SubmitDone
  /\ outcome = "returned"
  /\ changes = 1
  /\ heap[thisState].text = "buy groceries"
  /\ TextsOf(heap, Todos(heap, state)) = <<"buy groceries">>

\* C18: typing after a submit does not reach the stored todos: a change
\* event leaves the todos list and the text of each of its elements, the
\* submitted one included, as they were, and the object the component then
\* holds is none of the stored ones.
C18_TypingLeavesStoredTodos ==
  [][changes' # changes =>
      /\ state' = state
      /\ Todos(heap', state') = Todos(heap, state)
      /\ TextsOf(heap', Todos(heap', state'))
           = TextsOf(heap, Todos(heap, state))
      /\ \A i \in 1..Len(Todos(heap', state')) :
           Todos(heap', state')[i] # thisState']_vars

\* 'buy groceries' typed and submitted, then 'watch netflix' typed: the
\* stored todo, once the component's own state object, still reads
\* 'buy groceries'
C18_Witness ==
  /\ op = "handleChange"
  /\ lastInput = "watch netflix"
  /\ heap[thisState].text = "watch netflix"
  /\ Len(Todos(heap, state)) = 1
  /\ Todos(heap, state)[1] > Len(CallerHeap)
  /\ heap[Todos(heap, state)[1]].text = "buy groceries"

====
